---- MODULE Spec2Model ----
(***************************************************************************)
(* PostgreSqlConfigurationStore (src/src/index.ts): a key/value store kept *)
(* in one PostgreSQL table.  The model holds the store object's fields,    *)
(* the server's databases and tables, and one program counter per caller;  *)
(* an action is the piece of a method that runs between two awaits whose   *)
(* outcome depends on the server.                                          *)
(***************************************************************************)
EXTENDS Integers, Sequences, FiniteSets, TLC

VARIABLES
    config,       \* this.config: the configuration given to the last init
    pool,         \* this.pool: the lazily created pg Pool, or NoPool
    tableName,    \* this.tableName
    clientsOpen,  \* stand-alone pg Clients that are connected and not ended
    server,       \* the PostgreSQL server: its databases and their tables
    pc,           \* per caller: the await its call is suspended at
    call,         \* per caller: the call in flight
    last,         \* the call that finished most recently, with its outcome
    initOk,       \* an init call has returned successfully
    calls         \* number of calls started so far

vars == <<config, pool, tableName, clientsOpen, server, pc, call, last, initOk, calls>>

-----------------------------------------------------------------------------
(* Bounds of the model *)

\* number of store calls (init/get/set/update) started in one behaviour
MaxCalls == 4

\* the same, where every configuration is tried by concurrent callers
MaxBootCalls == 3

\* largest pool size (PoolConfig.max) a configuration asks for
MaxPoolSize == 2

\* concurrent callers of the one store object
Procs == {"p1", "p2"}

-----------------------------------------------------------------------------
(* JavaScript values and JSON documents *)

Undefined == [t |-> "undefined"]
Null == [t |-> "null"]
Num(n) == [t |-> "number", n |-> n]
Obj(m) == [t |-> "object", m |-> m]

O_ab == Obj([k \in {"a", "b"} |-> IF k = "a" THEN Num(1) ELSE Num(2)])
O_bc == Obj([k \in {"b", "c"} |-> IF k = "b" THEN Num(3) ELSE Num(4)])
O_u == Obj([k \in {"a", "b"} |-> IF k = "a" THEN Num(1) ELSE Undefined])

\* the values callers pass as value or default
Values == {Undefined, Null, Num(1), O_ab, O_bc, O_u}

\* a JSON text, held as the document it denotes; NoText is JSON.stringify's
\* undefined result
NoText == [j |-> "none"]
JNull == [j |-> "null"]
JNum(n) == [j |-> "number", n |-> n]
JObj(m) == [j |-> "object", m |-> m]

\* a member that JSON.stringify leaves out of an object
Dropped(v) == v.t = "undefined"

JSONstringifyScalar(v) ==
    CASE v.t = "null" -> JNull
      [] v.t = "number" -> JNum(v.n)
      [] OTHER -> NoText

\* a serializer that writes every object as {}
JSONstringify_Lossy(v) ==
    CASE v.t = "undefined" -> NoText
      [] v.t = "object" -> JObj([k \in {} |-> JNull])
      [] OTHER -> JSONstringifyScalar(v)

\* JSON.stringify(template.data)
JSONstringify(v) ==
    CASE v.t = "undefined" -> NoText
      [] v.t = "object" ->
           JObj([k \in {x \in DOMAIN v.m : ~Dropped(v.m[x])} |->
                    JSONstringifyScalar(v.m[k])])
      [] OTHER -> JSONstringifyScalar(v)

JSONparseScalar(j) ==
    CASE j.j = "number" -> Num(j.n)
      [] OTHER -> Null

\* JSON.parse, which the driver applies to a json column it reads
JSONparse(j) ==
    CASE j.j = "object" -> Obj([k \in DOMAIN j.m |-> JSONparseScalar(j.m[k])])
      [] OTHER -> JSONparseScalar(j)

\* v survives JSON.stringify unchanged: no undefined in it
JSONSerializable(v) ==
    /\ v.t # "undefined"
    /\ v.t = "object" => \A k \in DOMAIN v.m : v.m[k].t # "undefined"

\* the SQL NULL of a nullable column
SqlNull == [j |-> "SQLNULL"]

\* a driver that sends undefined as the JSON text null
CastJson_JsonNull(text) == IF text = NoText THEN JNull ELSE text

\* CAST($2 AS json) of the bound parameter: the driver sends undefined as NULL
CastJson(text) == IF text = NoText THEN SqlNull ELSE text

\* the data column of a row as the driver hands it to JavaScript
ReadData(d) == IF d = SqlNull THEN Null ELSE JSONparse(d)

\* { ...old, ...new }: the shallow union of two objects, new winning
ShallowMerge(old, new) ==
    Obj([k \in DOMAIN old.m \cup DOMAIN new.m |->
            IF k \in DOMAIN new.m THEN new.m[k] ELSE old.m[k]])

-----------------------------------------------------------------------------
(* Identifiers: pg-format's %I and PostgreSQL's reading of an identifier.   *)
(* A name is a sequence of one-character strings.                           *)

LowerLetters == {"c", "d", "e", "f", "g", "i", "n", "o", "p", "t"}
Digits == {"1"}
DQ == "\""

LowerChar(c) == IF c = "C" THEN "c" ELSE c

\* String.prototype.toLowerCase
toLowerCase(s) == [i \in DOMAIN s |-> LowerChar(s[i])]

\* words pg-format always quotes
Reserved == {<<"d", "o">>, <<"t", "o">>}

\* /^[a-z_][a-z0-9_$]*$/
PlainIdent(s) ==
    /\ Len(s) > 0
    /\ s[1] \in LowerLetters \cup {"_"}
    /\ \A i \in DOMAIN s : s[i] \in LowerLetters \cup Digits \cup {"_", "$"}

RECURSIVE DoubleQuotes(_)
DoubleQuotes(s) ==
    IF s = <<>> THEN <<>>
    ELSE (IF Head(s) = DQ THEN <<DQ, DQ>> ELSE <<Head(s)>>) \o DoubleQuotes(Tail(s))

\* format('%I', s): a plain, unreserved word as it is, anything else quoted
quoteIdent(s) ==
    IF PlainIdent(s) /\ s \notin Reserved THEN s
    ELSE <<DQ>> \o DoubleQuotes(s) \o <<DQ>>

RECURSIVE UndoubleQuotes(_)
UndoubleQuotes(s) ==
    IF s = <<>> THEN <<>>
    ELSE IF Len(s) >= 2 /\ s[1] = DQ /\ s[2] = DQ
         THEN <<DQ>> \o UndoubleQuotes(Tail(Tail(s)))
         ELSE <<Head(s)>> \o UndoubleQuotes(Tail(s))

\* the name PostgreSQL reads from an identifier in SQL text: a quoted one
\* verbatim, an unquoted one folded to lower case
PgIdentifier(text) ==
    IF Len(text) >= 2 /\ text[1] = DQ /\ text[Len(text)] = DQ
    THEN UndoubleQuotes(SubSeq(text, 2, Len(text) - 1))
    ELSE toLowerCase(text)

-----------------------------------------------------------------------------
(* Configurations *)

NoName == <<>>
NoConfig == [database |-> NoName, tableName |-> NoName, max |-> 0]

\* target database names a configuration may carry
DbNames == {<<"c", "f">>, <<"C", "f">>}

\* the table init_config.sql creates, and the initial value of this.tableName
ConfigTable == <<"c", "o", "n", "f", "i", "g">>

\* a tableName a configuration may carry
CustomTable == <<"t">>

\* the PostgreSqlConfiguration objects init is called with
Configs ==
    [database : DbNames, tableName : {NoName, CustomTable}, max : 1..MaxPoolSize]

\* the database pg connects to when it is given no configuration at all
EnvDatabase == <<"e">>

\* pg's pool size when the configuration is absent
DefaultPoolMax == 10

NoPool == [database |-> NoName, max |-> 0, out |-> 0]

\* new Pool(sqlConfig), sqlConfig = config || this.config
NewPool(cfg) ==
    IF cfg = NoConfig
    THEN [database |-> EnvDatabase, max |-> DefaultPoolMax, out |-> 0]
    ELSE [database |-> cfg.database, max |-> cfg.max, out |-> 0]

\* connect(undefined, true): if (!this.pool && usePool) this.pool = new Pool(...)
EnsurePool(pl, cfg) == IF pl = NoPool THEN NewPool(cfg) ELSE pl

-----------------------------------------------------------------------------
(* The server: databases, the configuration table and its rows *)

Paths == {"", "p"}

NoRow == [id |-> 0, config_path |-> "", data |-> SqlNull, v |-> Undefined,
          by |-> "none", old |-> NoText]

\* a row of the table; v, by and old record the write that produced data:
\* the JavaScript value given, the operation, and the data it replaced
Row(id, path, data, v, by, old) ==
    [id |-> id, config_path |-> path, data |-> data, v |-> v, by |-> by, old |-> old]

NoDatabase == [exists |-> FALSE, tables |-> {}, cons |-> {}, rows |-> {}]
EmptyDatabase == [exists |-> TRUE, tables |-> {}, cons |-> {}, rows |-> {}]

\* the constraints init_config.sql declares
TableConstraints == {"config_pk", "config_un"}

\* init_config.sql: CREATE TABLE IF NOT EXISTS config (...)
CreateTableIfNotExists(db) ==
    IF ConfigTable \in db.tables THEN db
    ELSE [db EXCEPT !.tables = @ \cup {ConfigTable}, !.cons = TableConstraints,
                    !.rows = {}]

\* uuid_generate_v4(): an id no row of the table has
FreshId(rows) == CHOOSE n \in 1..(Cardinality(rows) + 1) : \A r \in rows : r.id # n

\* the two JSON objects' members together, those of new winning
MergeData(old, new) ==
    IF old.j = "object" /\ new.j = "object"
    THEN JObj([k \in DOMAIN old.m \cup DOMAIN new.m |->
                 IF k \in DOMAIN new.m THEN new.m[k] ELSE old.m[k]])
    ELSE new

\* an upsert whose conflict clause merges the new document into the old one
Upsert_Merge(rows, path, data, v, by) ==
    IF \E r \in rows : r.config_path = path
    THEN {IF r.config_path = path
          THEN Row(r.id, path, MergeData(r.data, data), v, by, r.data) ELSE r : r \in rows}
    ELSE rows \cup {Row(FreshId(rows), path, data, v, by, NoText)}

\* a plain INSERT into a table that has no uniqueness constraint
Upsert_InsertOnly(rows, path, data, v, by) ==
    rows \cup {Row(FreshId(rows), path, data, v, by, NoText)}

\* INSERT ... ON CONFLICT ON CONSTRAINT config_un DO UPDATE SET data = ...
Upsert(rows, path, data, v, by) ==
    IF \E r \in rows : r.config_path = path
    THEN {IF r.config_path = path
          THEN Row(r.id, path, data, v, by, r.data) ELSE r : r \in rows}
    ELSE rows \cup {Row(FreshId(rows), path, data, v, by, NoText)}

\* the row of a path, NoRow if it has none
EntryOf(rows, path) ==
    IF \E r \in rows : r.config_path = path
    THEN CHOOSE r \in rows : r.config_path = path
    ELSE NoRow

\* a SELECT that never filters on the path
Selected_NoFilter(rows, path) == rows

\* a SELECT that filters on the path even when it is empty
Selected_AlwaysFilter(rows, path) == {r \in rows : r.config_path = path}

\* getData's SELECT: the WHERE clause is added only if (settingsPath)
Selected(rows, path) ==
    IF path # "" THEN {r \in rows : r.config_path = path} ELSE rows

\* SELECT * FROM pg_database WHERE datname = '%I' of the lower-cased name
CheckDbRows(srv, database) ==
    {d \in DOMAIN srv : srv[d].exists /\ d = quoteIdent(toLowerCase(database))}

\* the CREATE DATABASE statement fails: the database is there already
CreateDatabaseFails(srv, database) ==
    LET name == PgIdentifier(quoteIdent(database)) IN
    name \in DOMAIN srv /\ srv[name].exists

\* CREATE DATABASE %I TEMPLATE template0
CreateDatabase(srv, database) ==
    LET name == PgIdentifier(quoteIdent(database)) IN
    IF name \in DOMAIN srv
    THEN (IF srv[name].exists THEN srv ELSE [srv EXCEPT ![name] = EmptyDatabase])
    ELSE (name :> EmptyDatabase) @@ srv

\* the table setData's INSERT names: %1$I of this.tableName
InsertTable(tn) == PgIdentifier(quoteIdent(tn))

\* the table getData's SELECT names: this.tableName pasted into the text
SelectTable(tn) == PgIdentifier(tn)

\* the INSERT can run: its table and the constraint it names exist
CanInsert(db, tn) == InsertTable(tn) \in db.tables /\ "config_un" \in db.cons

\* the SELECT can run: its table exists
CanSelect(db, tn) == SelectTable(tn) \in db.tables

\* a table left by an earlier run of the program
SeedRows ==
    {Row(1, "", JNum(1), Num(1), "seed", NoText),
     Row(2, "p", JSONstringify(O_ab), O_ab, "seed", NoText)}

ProvisionedEmpty == CreateTableIfNotExists(EmptyDatabase)
ProvisionedSeeded == [ProvisionedEmpty EXCEPT !.rows = SeedRows]

ServerDbs == DbNames \cup {EnvDatabase}

-----------------------------------------------------------------------------
(* Calls *)

\* a call of init, get, set or update and what is known of it so far.  Beside
\* the arguments and the outcome it records what the call did: the row it
\* read, the row its path had then (entry), whether the table was empty then
\* (sawEmpty), the row it wrote, whether a write
\* to the same path was in flight with it (raced), the step of init whose
\* connection failed, whether its CREATE DATABASE failed, the database its
\* schema statement ran on, the table its query named against the one wanted,
\* the connections it holds.
NewCall(name, path, arg, cfg) ==
    [name |-> name, path |-> path, arg |-> arg, cfg |-> cfg,
     status |-> "pending", value |-> Undefined, why |-> "",
     hit |-> FALSE, read |-> NoRow, entry |-> NoRow, written |-> NoRow,
     sawEmpty |-> FALSE,
     raced |-> FALSE, createIssued |-> FALSE, provisioned |-> FALSE, connFail |-> 0,
     createFailed |-> FALSE, schemaDb |-> NoName,
     queried |-> FALSE, qInit |-> FALSE, qTarget |-> FALSE,
     qTable |-> NoName, qWant |-> NoName,
     held |-> 0]

NoCall == [NewCall("none", "", Undefined, NoConfig) EXCEPT !.status = "none"]

\* the table the configuration asks for: tableName if given, else config
WantedTable(cfg) ==
    IF cfg # NoConfig /\ cfg.tableName # NoName THEN cfg.tableName ELSE ConfigTable

\* the target database is there with its table
Provisioned(srv, database) ==
    /\ database \in DOMAIN srv
    /\ srv[database].exists
    /\ ConfigTable \in srv[database].tables

\* connectionWrapper when func rejects: the await throws and disconnect is
\* not reached, so the connections stay as they are
HeldAfterError(held) == held

\* connectionWrapper when func resolves: disconnect(client)
HeldAfterReturn(held) == 0

Reject(c, why) == [c EXCEPT !.status = "rejected", !.why = why,
                            !.held = HeldAfterError(c.held)]

\* an init that catches the failed check as createDatabase catches its query
AfterCheck_Swallow(up, rowCount) ==
    IF rowCount = 0 THEN "createdb" ELSE "tables"

\* what init does once the existence check has been sent on the admin
\* client: a failed connection fails the query, which rejects init
AfterCheck(up, rowCount) ==
    IF ~up THEN "rejected"
    ELSE IF rowCount = 0 THEN "createdb" ELSE "tables"

\* createDatabase's try/catch: the statement failed (connection lost, or the
\* database is there already) and the error was caught and logged
AfterCreate(up, srv, database) == ~up \/ CreateDatabaseFails(srv, database)

\* the call of p ends with record c
Finish(p, c) ==
    /\ last' = c
    /\ call' = [call EXCEPT ![p] = NoCall]
    /\ pc' = [pc EXCEPT ![p] = "idle"]

-----------------------------------------------------------------------------
(* Initial state: a fresh store object; the server may hold databases      *)
(* provisioned by an earlier run.                                          *)

Init ==
    /\ config = NoConfig
    /\ pool = NoPool
    /\ tableName = ConfigTable
    /\ clientsOpen = 0
    /\ server \in {f \in [ServerDbs -> {NoDatabase, EmptyDatabase, ProvisionedSeeded}] :
                     /\ f[EnvDatabase] = EmptyDatabase
                     /\ \A d \in DbNames : f[d] # EmptyDatabase}
    /\ pc = [p \in Procs |-> "idle"]
    /\ call = [p \in Procs |-> NoCall]
    /\ last = NoCall
    /\ initOk = FALSE
    /\ calls = 0

-----------------------------------------------------------------------------
(* init *)

\* an init that stores its argument before it looks at it
InitConfig_AssignFirst(cur, cfg) == cfg

\* this.config after init's first lines: the throw comes before the assignment
InitConfig(cur, cfg) == IF cfg = NoConfig THEN cur ELSE cfg

\* init(config) up to its first await: the missing-configuration throw, or
\* this.config = config and the admin Client created (its connect() is not
\* awaited)
CallInit(p, cfg) ==
    /\ pc[p] = "idle"
    /\ calls' = calls + 1
    /\ config' = InitConfig(config, cfg)
    /\ IF cfg = NoConfig
       THEN Finish(p, Reject(NewCall("init", "", Undefined, cfg), "config"))
       ELSE /\ call' = [call EXCEPT ![p] =
                          [NewCall("init", "", Undefined, cfg) EXCEPT
                             !.provisioned = Provisioned(server, cfg.database)]]
            /\ pc' = [pc EXCEPT ![p] = "init_check"]
            /\ UNCHANGED last
    /\ UNCHANGED <<pool, tableName, clientsOpen, server, initOk>>

\* the existence check on the admin client; then createDatabase is entered,
\* or the client is ended and createTables asks the pool for a connection
InitCheck(p) ==
    /\ pc[p] = "init_check"
    /\ \E up \in BOOLEAN :
         LET next == AfterCheck(up, Cardinality(CheckDbRows(server, call[p].cfg.database)))
             c == [call[p] EXCEPT !.connFail = IF up THEN 0 ELSE 1]
         IN
         CASE next = "rejected" ->
                /\ Finish(p, Reject(c, "connect1"))
                /\ UNCHANGED <<pool, clientsOpen>>
           [] next = "createdb" ->
                /\ call' = [call EXCEPT ![p] = [c EXCEPT !.held = 1]]
                /\ clientsOpen' = clientsOpen + 1
                /\ pc' = [pc EXCEPT ![p] = "init_createdb"]
                /\ UNCHANGED <<pool, last>>
           [] OTHER ->
                /\ call' = [call EXCEPT ![p] = c]
                /\ pool' = EnsurePool(pool, config)
                /\ pc' = [pc EXCEPT ![p] = "init_tables_connect"]
                /\ UNCHANGED <<clientsOpen, last>>
    /\ UNCHANGED <<config, tableName, server, initOk, calls>>

\* createDatabase on a second admin client: the CREATE DATABASE names
\* this.config.database, its failure is caught; both admin clients are ended
\* and createTables asks the pool for a connection
InitCreateDb(p) ==
    /\ pc[p] = "init_createdb"
    /\ \E up \in BOOLEAN :
         /\ server' = IF up THEN CreateDatabase(server, config.database) ELSE server
         /\ call' = [call EXCEPT
                       ![p].createIssued = TRUE,
                       ![p].createFailed = AfterCreate(up, server, config.database),
                       ![p].held = HeldAfterReturn(call[p].held)]
    /\ clientsOpen' = clientsOpen - call[p].held
    /\ pool' = EnsurePool(pool, config)
    /\ pc' = [pc EXCEPT ![p] = "init_tables_connect"]
    /\ UNCHANGED <<config, tableName, last, initOk, calls>>

\* createTables: init_config.sql on the pooled connection, release, return this
InitTablesQuery(p) ==
    /\ pc[p] = "init_tables_query"
    /\ server' = [server EXCEPT ![pool.database] = CreateTableIfNotExists(@)]
    /\ pool' = [pool EXCEPT !.out = @ - call[p].held]
    /\ Finish(p, [call[p] EXCEPT !.status = "resolved",
                                 !.schemaDb = pool.database,
                                 !.held = HeldAfterReturn(call[p].held)])
    /\ initOk' = TRUE
    /\ UNCHANGED <<config, tableName, clientsOpen, calls>>

-----------------------------------------------------------------------------
(* The pool *)

ConnectPcs == {"set_connect", "get_connect", "getset_connect", "init_tables_connect"}

AfterConnect(at) ==
    CASE at = "set_connect" -> "set_query"
      [] at = "get_connect" -> "get_query"
      [] at = "getset_connect" -> "getset_query"
      [] OTHER -> "init_tables_query"

\* await this.pool.connect(): waits while the pool is at its maximum; a new
\* connection is refused when the pool's database is missing or unreachable
PoolConnect(p) ==
    /\ pc[p] \in ConnectPcs
    /\ pool.out < pool.max
    /\ \E up \in BOOLEAN :
         IF up /\ pool.database \in DOMAIN server /\ server[pool.database].exists
         THEN /\ pool' = [pool EXCEPT !.out = @ + 1]
              /\ call' = [call EXCEPT ![p].held = @ + 1]
              /\ pc' = [pc EXCEPT ![p] = AfterConnect(pc[p])]
              /\ UNCHANGED last
         ELSE /\ Finish(p, IF pc[p] = "init_tables_connect"
                            THEN Reject([call[p] EXCEPT !.connFail = 4], "connect4")
                            ELSE Reject(call[p], "connect"))
              /\ UNCHANGED pool
    /\ UNCHANGED <<config, tableName, clientsOpen, server, initOk, calls>>

-----------------------------------------------------------------------------
(* set, update, get *)

\* caller o has a set or update of the path in flight
WritingTo(o, path) ==
    pc[o] \in {"set_connect", "set_query"} /\ call[o].path = path

\* setData / updateData (which only calls setData) up to pool.connect()
CallSet(p, name, path, value) ==
    /\ pc[p] = "idle"
    /\ calls' = calls + 1
    /\ pool' = EnsurePool(pool, config)
    /\ call' = [q \in Procs |->
                  IF q = p
                  THEN [NewCall(name, path, value, config) EXCEPT
                          !.raced = \E o \in Procs \ {p} : WritingTo(o, path)]
                  ELSE IF WritingTo(q, path) THEN [call[q] EXCEPT !.raced = TRUE]
                  ELSE call[q]]
    /\ pc' = [pc EXCEPT ![p] = "set_connect"]
    /\ UNCHANGED <<config, tableName, clientsOpen, server, last, initOk>>

\* getData up to pool.connect()
CallGet(p, path, defaultValue) ==
    /\ pc[p] = "idle"
    /\ calls' = calls + 1
    /\ pool' = EnsurePool(pool, config)
    /\ call' = [call EXCEPT ![p] = NewCall("get", path, defaultValue, config)]
    /\ pc' = [pc EXCEPT ![p] = "get_connect"]
    /\ UNCHANGED <<config, tableName, clientsOpen, server, last, initOk>>

\* the pool's connections go to the database the configuration names
OnTarget == config # NoConfig /\ pool.database = config.database

\* the operation a write is recorded under
WriteKind(at, name) == IF at = "getset_query" THEN "default" ELSE name

\* setData's INSERT, as called by set and update or by getData on a miss;
\* on success the connection is released (and, inside getData, the one
\* getData holds) and the value given is returned
SetQuery(p) ==
    /\ pc[p] \in {"set_query", "getset_query"}
    /\ LET db == server[pool.database]
           c == [call[p] EXCEPT !.queried = TRUE, !.qInit = initOk,
                                !.qTarget = OnTarget,
                                !.qTable = InsertTable(tableName),
                                !.qWant = WantedTable(config)]
           rows == Upsert(db.rows, c.path, CastJson(JSONstringify(c.arg)),
                          c.arg, WriteKind(pc[p], c.name))
       IN IF CanInsert(db, tableName)
          THEN /\ server' = [server EXCEPT ![pool.database].rows = rows]
               /\ pool' = [pool EXCEPT !.out = @ - c.held]
               /\ Finish(p, [c EXCEPT !.status = "resolved", !.value = c.arg,
                                      !.written = EntryOf(rows, c.path),
                                      !.held = HeldAfterReturn(c.held)])
          ELSE /\ Finish(p, Reject(c, "query"))
               /\ UNCHANGED <<server, pool>>
    /\ UNCHANGED <<config, tableName, clientsOpen, initOk, calls>>

\* getData's SELECT ... LIMIT 1: a row found is returned and the connection
\* released; with no row setData is called and asks the pool for a connection
GetQuery(p) ==
    /\ pc[p] = "get_query"
    /\ LET db == server[pool.database]
           c == [call[p] EXCEPT !.queried = TRUE, !.qInit = initOk,
                                !.qTarget = OnTarget,
                                !.qTable = SelectTable(tableName),
                                !.qWant = WantedTable(config),
                                !.entry = EntryOf(db.rows, call[p].path),
                                !.sawEmpty = (db.rows = {})]
           sel == Selected(db.rows, c.path)
       IN IF ~CanSelect(db, tableName)
          THEN /\ Finish(p, Reject(c, "query"))
               /\ UNCHANGED pool
          ELSE IF sel = {}
          THEN /\ call' = [call EXCEPT ![p] = c]
               /\ pc' = [pc EXCEPT ![p] = "getset_connect"]
               /\ UNCHANGED <<pool, last>>
          ELSE /\ \E r \in sel :
                    Finish(p, [c EXCEPT !.status = "resolved", !.hit = TRUE,
                                        !.read = r, !.value = ReadData(r.data),
                                        !.held = HeldAfterReturn(c.held)])
               /\ pool' = [pool EXCEPT !.out = @ - c.held]
    /\ UNCHANGED <<config, tableName, clientsOpen, server, initOk, calls>>

-----------------------------------------------------------------------------
(* Specifications *)

\* one step of a caller in P, with at most N calls started and the calls'
\* inputs taken from the given sets
Step(P, N, Cfgs, Names, Pths, Vals, Dflts) ==
    \E p \in P :
       \/ calls < N /\ \E cfg \in Cfgs : CallInit(p, cfg)
       \/ InitCheck(p)
       \/ InitCreateDb(p)
       \/ InitTablesQuery(p)
       \/ PoolConnect(p)
       \/ calls < N /\ \E name \in Names, path \in Pths, v \in Vals :
                          CallSet(p, name, path, v)
       \/ calls < N /\ \E path \in Pths, d \in Dflts : CallGet(p, path, d)
       \/ SetQuery(p)
       \/ GetQuery(p)

Next == Step(Procs, MaxCalls, Configs \cup {NoConfig}, {"set", "update"}, Paths,
             Values, Values)

\* every caller, every input
Spec == Init /\ [][Next]_vars

\* the configuration of a plain deployment
PlainConfig == [database |-> <<"c", "f">>, tableName |-> NoName, max |-> MaxPoolSize]

\* one caller that awaits each call before the next, as src/src/test.ts does,
\* on a store set up with the plain configuration
NextData == Step({"p1"}, MaxCalls, {PlainConfig}, {"set", "update"}, Paths,
                 {Undefined, O_bc, O_u}, {Undefined, O_bc})
SpecData == Init /\ [][NextData]_vars

\* concurrent callers setting and getting two values, on a server where only
\* the database of the plain configuration may have been provisioned before
NextRace == Step(Procs, MaxCalls, {PlainConfig}, {"set"}, Paths, {O_ab, O_bc},
                 {Undefined})
InitRace == Init /\ \A d \in DbNames \ {PlainConfig.database} : server[d] = NoDatabase
SpecRace == InitRace /\ [][NextRace]_vars

\* concurrent callers, every database and table name, one path and one value
BootConfigs == {c \in Configs : c.max = MaxPoolSize} \cup {NoConfig}
NextBoot == Step(Procs, MaxBootCalls, BootConfigs, {"set"}, {"p"}, {O_bc}, {Undefined})
SpecBoot == Init /\ [][NextBoot]_vars

\* concurrent callers of a store whose pool has every size up to MaxPoolSize;
\* the server answers every query and the pool hands out a connection
\* whenever it has one to give
PoolConfigs == {c \in Configs : c.database = PlainConfig.database /\ c.tableName = NoName}
NextPool == Step(Procs, MaxCalls, PoolConfigs, {"set"}, {"p"}, {O_bc}, {Undefined})
Answered ==
    \A p \in Procs :
       /\ WF_vars(InitCheck(p))
       /\ WF_vars(InitCreateDb(p))
       /\ WF_vars(InitTablesQuery(p))
       /\ WF_vars(PoolConnect(p))
       /\ WF_vars(SetQuery(p))
       /\ WF_vars(GetQuery(p))
SpecPool == InitRace /\ [][NextPool]_vars /\ Answered

-----------------------------------------------------------------------------
(* Properties *)

DataOps == {"get", "set", "update"}

\* the last call was a get that returned
GetReturned == last.name = "get" /\ last.status = "resolved"

\* the path of the last get had a row, last written by set with a
\* JSON-serializable value
ReadAfterSet ==
    /\ GetReturned
    /\ last.entry # NoRow
    /\ last.entry.by = "set"
    /\ JSONSerializable(last.entry.v)

\* C1 as stated: for every path, a get that follows a completed set(path, v)
\* with no other write to the path in between returns a value equal to v.
C1_RoundTripAnyPath == ReadAfterSet => last.value = last.entry.v

\* C1, amended: for every non-empty path and every JSON-serializable v, a get
\* that follows a completed set(path, v) with no other write to the path in
\* between returns a value structurally equal to v.
C1_RoundTripNonEmptyPath ==
    (ReadAfterSet /\ last.path # "") => last.value = last.entry.v

\* a get of path p returned the object that a set of this run stored there
C1_Witness ==
    /\ ReadAfterSet
    /\ last.path = "p"
    /\ last.entry.v = O_bc
    /\ last.value = O_bc

\* C2: when an object is stored at a path and update(path, o) is called with
\* an object o, a following get(path) returns the shallow union of the stored
\* object and o, the keys of o winning.
C2_UpdateMerges ==
    (/\ GetReturned
     /\ last.read = last.entry
     /\ last.entry.by = "update"
     /\ last.entry.old.j = "object"
     /\ last.entry.v.t = "object"
     /\ JSONSerializable(last.entry.v))
    => last.value = ShallowMerge(JSONparse(last.entry.old), last.entry.v)

\* the last get read a path whose stored value a set had replaced
ReadAfterReplace == ReadAfterSet /\ last.entry.old # NoText

\* what C3 asks of a get after a replacing set, and of the set itself
ReplacedWhole ==
    /\ ReadAfterReplace =>
         /\ last.value = last.entry.v
         /\ last.entry.data = CastJson(JSONstringify(last.entry.v))
    /\ (last.name = "set" /\ last.status = "resolved") =>
         /\ last.value = last.arg
         /\ last.written.data = CastJson(JSONstringify(last.arg))

\* C3 as stated: for every path, after set(path, new) over a stored old,
\* get(path) returns exactly new and nothing of old survives.
C3_ReplaceAnyPath == ReplacedWhole

\* C3, amended: for every non-empty path, after set(path, new) over a stored
\* old, get(path) returns exactly new and nothing of old survives; for every
\* path the row of the path holds exactly new.
C3_ReplaceNonEmptyPath == (GetReturned => last.path # "") => ReplacedWhole

\* a get of path p returned the object a set put in the place of the object
\* stored before
C3_Witness ==
    /\ ReadAfterReplace
    /\ last.path = "p"
    /\ last.entry.old = JSONstringify(O_ab)
    /\ last.entry.v = O_bc
    /\ last.value = O_bc

\* what C4 asks of a get: on a path with no row and with a default D it
\* returns D and stores D under the path; on a path with a row it returns the
\* row's value and writes nothing, so that a get after a materialized D
\* returns D
Materializes ==
    /\ (last.entry = NoRow /\ last.arg # Undefined) =>
         /\ last.value = last.arg
         /\ last.written # NoRow
         /\ last.written.config_path = last.path
         /\ last.written.by = "default"
         /\ last.written.data = CastJson(JSONstringify(last.arg))
    /\ last.entry # NoRow =>
         /\ last.value = ReadData(last.entry.data)
         /\ last.written = NoRow
    /\ (last.entry # NoRow /\ last.entry.by = "default"
          /\ JSONSerializable(last.entry.v)) =>
         last.value = last.entry.v

\* C4 as stated: for every path, get(path, D) on a path with no entry returns
\* D and persists it, and on a path with an entry returns the stored value
\* and writes nothing.
C4_DefaultAnyPath == GetReturned => Materializes

\* C4, amended: for every non-empty path, get(path, D) on a path with no
\* entry returns D and persists it, so that a later get(path) returns D; on a
\* path with an entry it returns the stored value and writes nothing.
C4_DefaultNonEmptyPath == (GetReturned /\ last.path # "") => Materializes

\* a get with no default returned the default an earlier get had stored
C4_Witness ==
    /\ GetReturned
    /\ last.path = "p"
    /\ last.arg = Undefined
    /\ last.entry.by = "default"
    /\ last.entry.v = O_bc
    /\ last.value = O_bc

\* in every table at most one row per config_path, and every row holds the
\* whole document of one write
OneRowPerPath ==
    \A d \in DOMAIN server :
       /\ \A r1, r2 \in server[d].rows : r1.config_path = r2.config_path => r1 = r2
       /\ \A r \in server[d].rows : r.data = CastJson(JSONstringify(r.v))

\* the last get returned the whole value of the one write that made the row
\* it read
ReadOneWrite ==
    (GetReturned /\ last.hit) =>
       /\ last.value = ReadData(last.read.data)
       /\ JSONSerializable(last.read.v) => last.value = last.read.v

\* C5 as stated: in every reachable state a table holds at most one row per
\* config_path, and after concurrent sets of a path a get of the path returns
\* the value of one of them, the one its row holds.
C5_OneRowPerPath ==
    /\ OneRowPerPath
    /\ ReadOneWrite
    /\ (GetReturned /\ last.hit) => last.read = last.entry

\* C5, amended: in every reachable state a table holds at most one row per
\* config_path, each row holding the whole value of one write; a get returns
\* the whole value of one row, which for a non-empty path is the row of that
\* path.
C5_OneRowPerPathNonEmpty ==
    /\ OneRowPerPath
    /\ ReadOneWrite
    /\ (GetReturned /\ last.hit /\ last.path # "") => last.read = last.entry

\* two sets of path p with different values were in flight together and both
\* have returned: the one row of p holds the value of the later one
C5_Witness ==
    /\ \A p \in Procs : pc[p] = "idle"
    /\ last.name = "set" /\ last.status = "resolved" /\ last.raced
    /\ last.path = "p"
    /\ LET rows == server[pool.database].rows IN
         /\ Cardinality(rows) = 1
         /\ \E r \in rows :
              /\ r.config_path = "p"
              /\ r.v = last.arg
              /\ r.old # NoText
              /\ r.old # r.data

\* C6: after any sequence of operations has finished, no connection remains
\* held, whether the operations failed or succeeded.
C6_NoConnectionLeftHeld ==
    (\A p \in Procs : pc[p] = "idle") => (pool.out = 0 /\ clientsOpen = 0)

\* C7: an init against a database that is already provisioned completes
\* without error, issues no CREATE DATABASE and leaves the one table with its
\* uniqueness constraint.
C7_SecondInitIdempotent ==
    /\ \A p \in Procs :
         (call[p].name = "init" /\ call[p].provisioned) =>
            (pc[p] # "init_createdb" /\ ~call[p].createIssued)
    /\ (last.name = "init" /\ last.provisioned /\ last.status # "pending") =>
         /\ ~last.createIssued
         /\ last.status = "rejected" => last.connFail # 0
         /\ last.status = "resolved" =>
              /\ server[last.cfg.database].tables = {ConfigTable}
              /\ server[last.cfg.database].cons = TableConstraints

\* C8: once init has been given a configuration and has returned, the query
\* of every get, set and update names the table the configuration asks for:
\* its tableName, or config without one.
C8_TableNameOverride ==
    (last.name \in DataOps /\ last.queried /\ last.qInit) => last.qTable = last.qWant

\* C9: an init whose connection to the administrative database (step 1) or
\* to the target database (step 4) fails does not go on and ends rejected.
C9_ConnectionFailureRejectsInit ==
    /\ \A p \in Procs : pc[p] # "idle" => call[p].connFail = 0
    /\ (last.name = "init" /\ last.connFail # 0) => last.status = "rejected"

\* an init ended rejected after its administrative connection failed
C9_Witness ==
    /\ last.name = "init"
    /\ last.connFail = 1
    /\ last.status = "rejected"
    /\ ~initOk

\* C10: no get, set or update sends its query to the target database unless
\* an init call has returned successfully before.
C10_NoQueryBeforeInit ==
    (last.name \in DataOps /\ last.queried /\ last.qTarget) => last.qInit

\* C11: when the existence check finds no database and the CREATE DATABASE
\* statement fails, the error is absorbed, both administrative clients are
\* ended, and init goes on to run the schema statement, on the database its
\* configuration names.
C11_CreateFailureNonFatal ==
    /\ clientsOpen = Cardinality({p \in Procs : pc[p] = "init_createdb"})
    /\ \A p \in Procs :
         call[p].createFailed =>
            /\ pc[p] \in {"init_tables_connect", "init_tables_query"}
            /\ call[p].held = IF pc[p] = "init_tables_query" THEN 1 ELSE 0
    /\ (last.name = "init" /\ last.createFailed) =>
         /\ last.status = "rejected" => last.connFail = 4
         /\ last.status = "resolved" => last.schemaDb = last.cfg.database

\* a step that is a whole call of init without a configuration: a call is
\* started and no caller is left suspended in it
InitWithoutConfig ==
    /\ calls' = calls + 1
    /\ pc' = pc
    /\ last'.name = "init"
    /\ last'.cfg = NoConfig

C13_OneConnectionPerOperation ==
    \A p \in Procs : call[p].name \in DataOps => call[p].held <= 1

\* C14: the default of a get is stored only if the path still has no entry
\* when it is written: no row written by a default has replaced a stored
\* value, so a value a set wrote while the get was in flight is not
\* overwritten by the default.
C14_AtomicDefault ==
    /\ \A d \in DOMAIN server :
          \A r \in server[d].rows : r.by = "default" => r.old = NoText
    /\ (last.name = "get" /\ last.written # NoRow) => last.written.old = NoText

\* the last get found no row and had no default
MissNoDefault == GetReturned /\ ~last.hit /\ last.arg = Undefined

\* the last get read an entry that a get with no default had created
ReadAbsentDefault ==
    GetReturned /\ last.hit /\ last.read.by = "default" /\ last.read.v = Undefined

\* what C15 asks of the later get: it returns null and stores nothing
LaterGetReturnsNull ==
    ReadAbsentDefault => (last.value = Null /\ last.written = NoRow)

EmptyPathGet == GetReturned /\ last.path = ""

\* C16: a get with the empty path applies no path filter: when the table
\* holds a row it returns the data of one row, of any path, and writes
\* nothing; only when the table is empty does it store the default under the
\* empty path and return it.
C16_EmptyPathRead ==
    EmptyPathGet =>
       /\ last.hit <=> ~last.sawEmpty
       /\ last.hit =>
            /\ last.read # NoRow
            /\ last.value = ReadData(last.read.data)
            /\ last.written = NoRow
       /\ ~last.hit =>
            /\ last.written.config_path = ""
            /\ last.written.by = "default"
            /\ last.written.data = CastJson(JSONstringify(last.arg))
            /\ last.value = last.arg

\* a get with the empty path and a default returned the data of the row of
\* path p, which is still in the table, and wrote nothing
C16_Witness ==
    /\ EmptyPathGet
    /\ last.arg = O_bc
    /\ last.hit
    /\ last.read.config_path = "p"
    /\ last.read \in server[pool.database].rows
    /\ last.value = ReadData(last.read.data)
    /\ last.value # O_bc
    /\ last.written = NoRow

\* connections of the pool held by the calls in flight
HeldByCalls(S) ==
    LET RECURSIVE Sum(_)
        Sum(T) == IF T = {} THEN 0
                  ELSE LET q == CHOOSE x \in T : TRUE IN call[q].held + Sum(T \ {q})
    IN Sum(S)

\* the pool is exhausted by gets that missed: every connection is held by a
\* get waiting for a second connection, and no other call is in flight that
\* could give one back
PoolDeadlock ==
    /\ \E p \in Procs : pc[p] = "getset_connect"
    /\ \A p \in Procs : pc[p] # "idle" => pc[p] = "getset_connect"
    /\ pool.out = pool.max
    /\ pool.out = HeldByCalls(Procs)

\* C17: for every pool size and under concurrent callers, no state is
\* reached where gets each hold a pooled connection and wait forever for
\* another, and every get, set and update call eventually completes when the
\* server answers every query.
C17_TerminationUnderBoundedPool ==
    /\ [](~PoolDeadlock)
    /\ \A p \in Procs : (call[p].name \in DataOps) ~> (pc[p] = "idle")

====
